---- MODULE Spec2Model ----
(***************************************************************************)
(* tap-xero: the resumable sync scheduler (sync), catalog discovery        *)
(* (discover) and the secret-manager credential rotation of main_impl,     *)
(* as a state machine over successive runs of the tap.                     *)
(***************************************************************************)
EXTENDS Integers, Sequences, FiniteSets, TLC

\* ---- bounds of the model ------------------------------------------------
MaxRuns == 2        \* successive invocations of the tap
MaxBookmark == 1    \* bookmark advances an extraction may persist
InitVersions == 9   \* versions of the refresh-token secret before run 1
RecursionLimit == 4 \* frames of load_schema the interpreter allows

\* ---- values -------------------------------------------------------------
None == "None"                      \* Python None
ForeignId == "nonexistent_stream"   \* an id no declared stream carries

SECRET_XERO_REFRESH_TOKEN == "SECRET_XERO_REFRESH_TOKEN"
SECRET_XERO_OAUTH_CREDENTIALS == "SECRET_XERO_OAUTH_CREDENTIALS"
SecretNames == {SECRET_XERO_REFRESH_TOKEN, SECRET_XERO_OAUTH_CREDENTIALS}

\* client credentials held by the config file and by the secret store
CfgClient == 1
GsmClient == 2
\* the refresh token the provider accepts before run 1
InitToken == 1

\* streams_.all_streams, in declared order
all_streams ==
  << [tap_stream_id |-> "bank_transactions", pk_fields |-> <<"BankTransactionID">>,
      bookmark_key |-> "UpdatedDateUTC", replication_method |-> "INCREMENTAL"],
     [tap_stream_id |-> "contacts", pk_fields |-> <<"ContactID">>,
      bookmark_key |-> "UpdatedDateUTC", replication_method |-> "INCREMENTAL"],
     [tap_stream_id |-> "invoices", pk_fields |-> <<"InvoiceID">>,
      bookmark_key |-> "UpdatedDateUTC", replication_method |-> "INCREMENTAL"] >>

\* streams_.all_stream_ids
all_stream_ids == [i \in DOMAIN all_streams |-> all_streams[i].tap_stream_id]

StreamIdSet == {all_stream_ids[i] : i \in DOMAIN all_stream_ids}

\* ---- helpers of the Python runtime ---------------------------------------
Range(s) == {s[i] : i \in DOMAIN s}

Last(s) == s[Len(s)]

\* list.index(x), 0-based; -1 stands for the ValueError it raises
ListIndex(s, x) ==
  IF \E i \in DOMAIN s : s[i] = x
  THEN (CHOOSE i \in DOMAIN s : s[i] = x /\ \A j \in DOMAIN s : s[j] = x => i <= j) - 1
  ELSE -1

\* truthiness of state.get("currently_syncing"): None and "" are falsy
Truthy(v) == v # None /\ v # ""

\* s[k:], k 0-based
SliceFrom(s, k) == SubSeq(s, k + 1, Len(s))

RECURSIVE ToDigits(_)
\* str(n) for n >= 0, as the sequence of its decimal digits
ToDigits(n) == IF n < 10 THEN <<n>> ELSE Append(ToDigits(n \div 10), n % 10)

RECURSIVE FromDigits(_)
\* int(s) of a decimal digit string
FromDigits(d) ==
  IF Len(d) = 0 THEN 0
  ELSE 10 * FromDigits(SubSeq(d, 1, Len(d) - 1)) + d[Len(d)]

VARIABLES
  pc,                    \* position of the running process
  run,                   \* number of the current invocation
  args,                  \* utils.parse_args: [discover, has_catalog]
  GOOGLE_SECRET_MANAGER, \* the environment switch
  catalogFile,           \* the catalog file the operator passes
  configFile,            \* the config file on disk
  config,                \* args.config, in memory
  state,                 \* ctx.state, in memory
  persisted,             \* the last state written by write_state
  catalog,               \* ctx.catalog
  start_idx,             \* sync: resume index
  streams,               \* sync: the working list
  idx,                   \* sync: position of the for loop (1-based)
  err,                   \* the exception that ended the run, if any
  trace,                 \* what the run has done so far, in order
  secrets,               \* the secret store: name -> versions
  gsm_calls,             \* requests sent to the secret store in this run
  version,               \* main_impl: name of the version add returned
  providerToken,         \* the refresh token the provider accepts
  loaded,                \* args.state as parse_args loaded it
  prev,                  \* how the previous invocation ended
  resolver,              \* load_schema: the schema files, the call stack, the result
  builder                \* load_metadata: its arguments and its result

vars == <<pc, run, args, GOOGLE_SECRET_MANAGER, catalogFile, configFile, config,
          state, persisted, catalog, start_idx, streams, idx, err, trace,
          secrets, gsm_calls, version, providerToken, loaded, prev, resolver, builder>>

\* ---- inputs ---------------------------------------------------------------
NoBookmarks == [s \in StreamIdSet |-> 0]

\* the values a state file can hold under currently_syncing
InitCs == {None, ""} \cup StreamIdSet \cup {ForeignId}

\* catalog files: the declared streams listed in declared or in reverse order,
\* each selected or not
Catalogs ==
  LET N == Len(all_stream_ids) IN
  { [i \in 1..N |-> [tap_stream_id |-> all_stream_ids[p[i]], selected |-> sel[i]]] :
      p \in {[i \in 1..N |-> i], [i \in 1..N |-> N + 1 - i]},
      sel \in [1..N -> BOOLEAN] }

\* command lines: --discover, --catalog FILE, or neither
ArgSet == { [discover |-> TRUE, has_catalog |-> FALSE],
            [discover |-> FALSE, has_catalog |-> TRUE],
            [discover |-> FALSE, has_catalog |-> FALSE] }

NoPrev == [pc |-> "none", err |-> "none", at |-> None, discover |-> FALSE,
           has_catalog |-> FALSE, currently_syncing |-> None,
           same_catalog |-> TRUE, owing |-> {}, unsaved |-> FALSE]

\* load_schema and load_metadata not called
NoResolver == [status |-> "idle", graph |-> <<>>, root |-> None, stack |-> <<>>,
               result |-> <<>>, err |-> "none"]

NoBuilder == [status |-> "idle", stream |-> <<>>, schema |-> <<>>, mdata |-> <<>>]

InitSecrets ==
  [n \in SecretNames |->
     IF n = SECRET_XERO_REFRESH_TOKEN
     THEN [v \in 1..InitVersions |->
             [data |-> InitToken,
              st |-> IF v = InitVersions THEN "enabled" ELSE "destroyed"]]
     ELSE << [data |-> GsmClient, st |-> "enabled"] >>]

Init ==
  /\ pc = "main"
  /\ run = 1
  /\ args \in ArgSet
  /\ GOOGLE_SECRET_MANAGER \in BOOLEAN
  /\ catalogFile \in Catalogs
  /\ configFile = [refresh_token |-> InitToken, client_id |-> CfgClient,
                   client_secret |-> CfgClient]
  /\ config = configFile
  /\ persisted \in {[currently_syncing |-> c, bookmarks |-> NoBookmarks] : c \in InitCs}
  /\ state = persisted
  /\ loaded = persisted
  /\ catalog = <<>>
  /\ start_idx = 0
  /\ streams = <<>>
  /\ idx = 1
  /\ err = "none"
  /\ trace = <<>>
  /\ secrets = InitSecrets
  /\ gsm_calls = <<>>
  /\ version = <<>>
  /\ providerToken = InitToken
  /\ prev = NoPrev
  /\ resolver = NoResolver
  /\ builder = NoBuilder

\* ---- collaborators ---------------------------------------------------------
\* ctx.write_state(): the state as it is now becomes the persisted state
write_state(st) == st

\* CatalogEntry.is_selected()
is_selected(cs) == cs.selected

\* ctx.refresh_credentials(): the provider accepts the current refresh token
\* only while it is the live one, and hands out the next one
refresh_accepts(cfg, live) == cfg.refresh_token = live

refresh_credentials(cfg, live) == [cfg EXCEPT !.refresh_token = live + 1]

\* stream.sync(ctx) advancing its own bookmark
advance_bookmark(st, id) ==
  [st EXCEPT !.bookmarks = [@ EXCEPT ![id] = @ + 1]]

\* the secret store: access_secret_version(name/versions/latest)
latest_enabled(store, name) ==
  Len(store[name]) > 0 /\ Last(store[name]).st = "enabled"

access_latest(store, name) == Last(store[name]).data

\* the secret store: add_secret_version(parent, payload) and the name it returns
add_version(store, parent, data) ==
  [store EXCEPT ![parent] = Append(@, [data |-> data, st |-> "enabled"])]

added_name(store, parent) == <<parent, "versions", ToDigits(Len(store[parent]) + 1)>>

\* the secret store: destroy_secret_version(name)
version_exists(store, name) ==
  /\ name[1] \in DOMAIN store
  /\ FromDigits(name[3]) \in DOMAIN store[name[1]]

destroy_version(store, name) ==
  [store EXCEPT ![name[1]] = [@ EXCEPT ![FromDigits(name[3])].st = "destroyed"]]

\* ---- sync, its pure parts --------------------------------------------------
\* the resume index that restarts from the top on an unknown id
resume_index_or_top(currently_syncing) ==
  IF Truthy(currently_syncing) /\ ListIndex(all_stream_ids, currently_syncing) >= 0
  THEN ListIndex(all_stream_ids, currently_syncing)
  ELSE 0

\* the resume index one past the stream the state names
resume_index_after(currently_syncing) ==
  IF Truthy(currently_syncing)
  THEN IF ListIndex(all_stream_ids, currently_syncing) < 0
       THEN -1
       ELSE ListIndex(all_stream_ids, currently_syncing) + 1
  ELSE 0

\* the resume index looked up among the selected ids
resume_index_in_selection(currently_syncing) ==
  IF Truthy(currently_syncing)
  THEN ListIndex(SelectSeq(all_stream_ids,
                           LAMBDA id : \E i \in DOMAIN catalog :
                                          /\ catalog[i].tap_stream_id = id
                                          /\ catalog[i].selected),
                 currently_syncing)
  ELSE 0

\* sync: start_idx (-1: list.index raised ValueError)
resume_index(currently_syncing) ==
  IF Truthy(currently_syncing)
  THEN ListIndex(all_stream_ids, currently_syncing)
  ELSE 0

\* sync: stream_ids_to_sync, the selected ids in catalog order
stream_ids_to_sync(cat) ==
  LET sel == SelectSeq(cat, is_selected)
  IN [i \in DOMAIN sel |-> sel[i].tap_stream_id]

\* the working list without the resume index
streams_to_sync_from_top(start, ids) ==
  SelectSeq(all_streams, LAMBDA s : s.tap_stream_id \in Range(ids))

\* the working list built by walking the selected ids
streams_to_sync_in_catalog_order(start, ids) ==
  LET tail == SliceFrom(all_streams, start)
      picks == SelectSeq(ids, LAMBDA id : \E i \in DOMAIN tail : tail[i].tap_stream_id = id)
  IN [i \in DOMAIN picks |-> CHOOSE st \in Range(tail) : st.tap_stream_id = picks[i]]

\* sync: streams, the working list
streams_to_sync(start, ids) ==
  SelectSeq(SliceFrom(all_streams, start),
            LAMBDA s : s.tap_stream_id \in Range(ids))

\* the name of the version just added, taken for the old one
old_version_name_latest(ver) ==
  <<SECRET_XERO_REFRESH_TOKEN, "versions", ToDigits(FromDigits(Last(ver)))>>

\* main_impl: the name of the version to destroy
old_version_name(ver) ==
  LET newVersionNumber == FromDigits(Last(ver))
      oldVersionNumber == newVersionNumber - 1
  IN <<SECRET_XERO_REFRESH_TOKEN, "versions", ToDigits(oldVersionNumber)>>

\* main_impl: the payload of the write-back
writeback_payload(cfg) == cfg.refresh_token

\* ---- load_metadata ------------------------------------------------------------
\* metadata.write(mdata, breadcrumb, k, val): the entry of the breadcrumb gets
\* the key, a new entry is made when the breadcrumb has none
metadata_write(mdata, breadcrumb, k, val) ==
  IF \E i \in DOMAIN mdata : mdata[i].breadcrumb = breadcrumb
  THEN [i \in DOMAIN mdata |->
          IF mdata[i].breadcrumb = breadcrumb
          THEN [mdata[i] EXCEPT !.metadata = (k :> val) @@ @]
          ELSE mdata[i]]
  ELSE Append(mdata, [breadcrumb |-> breadcrumb, metadata |-> (k :> val)])

RECURSIVE write_inclusions_pk_only(_, _, _)
\* the loop over the fields with the bookmark key left out of the test
write_inclusions_pk_only(mdata, stream, fields) ==
  IF fields = <<>> THEN mdata
  ELSE LET field_name == Head(fields)
           inclusion == IF field_name \in Range(stream.pk_fields)
                        THEN "automatic" ELSE "available"
       IN write_inclusions_pk_only(
            metadata_write(mdata, <<"properties", field_name>>, "inclusion", inclusion),
            stream, Tail(fields))

RECURSIVE write_inclusions(_, _, _)
\* load_metadata: the loop over schema['properties'].keys()
write_inclusions(mdata, stream, fields) ==
  IF fields = <<>> THEN mdata
  ELSE LET field_name == Head(fields)
           inclusion == IF \/ field_name \in Range(stream.pk_fields)
                           \/ field_name = stream.bookmark_key
                        THEN "automatic" ELSE "available"
       IN write_inclusions(
            metadata_write(mdata, <<"properties", field_name>>, "inclusion", inclusion),
            stream, Tail(fields))

\* load_metadata: the root annotations
root_metadata(stream) ==
  LET m1 == metadata_write(<<>>, <<>>, "table-key-properties", stream.pk_fields)
      m2 == metadata_write(m1, <<>>, "forced-replication-method",
                           stream.replication_method)
  IN IF Truthy(stream.bookmark_key)
     THEN metadata_write(m2, <<>>, "valid-replication-keys", <<stream.bookmark_key>>)
     ELSE m2

\* load_metadata with inclusion decided by the primary key alone
load_metadata_pk_only(stream, schema) ==
  write_inclusions_pk_only(root_metadata(stream), stream, schema.properties)

\* load_metadata(stream, schema), as metadata.to_list returns it
load_metadata(stream, schema) ==
  write_inclusions(root_metadata(stream), stream, schema.properties)

\* load_schema(stream.tap_stream_id) for a declared stream
declared_schema(stream) ==
  [properties |-> stream.pk_fields \o <<stream.bookmark_key>>]

\* discover: the catalog it builds, one entry per declared stream
discover_catalog ==
  [i \in DOMAIN all_streams |->
     LET stream == all_streams[i]
         schema_dict == declared_schema(stream)
     IN [stream |-> stream.tap_stream_id,
         tap_stream_id |-> stream.tap_stream_id,
         key_properties |-> stream.pk_fields,
         schema |-> schema_dict,
         metadata |-> load_metadata(stream, schema_dict),
         selected |-> FALSE]]

\* ---- the process -----------------------------------------------------------
Event(op, arg) == <<op, arg>>

\* an exception of discovery or sync after which the write-back still runs
RaiseThenWriteBack(e) ==
  /\ pc' = IF GOOGLE_SECRET_MANAGER /\ pc \in {"discover", "sync", "sync_resume", "extracting"}
           THEN "writeback" ELSE "failed"
  /\ err' = e

\* main: an exception reaches the top, is logged and re-raised
Raise(e) ==
  /\ pc' = "failed"
  /\ err' = e

CurrentStream == streams[idx].tap_stream_id

\* main_impl: the switch is off, nothing is read from the secret store
MainNoSecretRead ==
  /\ pc = "main"
  /\ ~GOOGLE_SECRET_MANAGER
  /\ pc' = "dispatch"
  /\ UNCHANGED <<run, args, GOOGLE_SECRET_MANAGER, catalogFile, configFile, config,
                 state, persisted, catalog, start_idx, streams, idx, err, trace,
                 secrets, gsm_calls, version, providerToken, loaded, prev, resolver, builder>>

\* the refresh token read from the secret store and not put into the config
MainReadRefreshTokenUnused ==
  /\ pc = "main"
  /\ GOOGLE_SECRET_MANAGER
  /\ gsm_calls' = Append(gsm_calls,
       [op |-> "access", secret |-> SECRET_XERO_REFRESH_TOKEN, arg |-> 0])
  /\ \/ /\ latest_enabled(secrets, SECRET_XERO_REFRESH_TOKEN)
        /\ pc' = "main_oauth"
        /\ err' = err
     \/ Raise("SecretAccessError")
  /\ UNCHANGED <<run, args, GOOGLE_SECRET_MANAGER, catalogFile, configFile, config,
                 state, persisted, catalog, start_idx, streams, idx, trace,
                 secrets, version, providerToken, loaded, prev, resolver, builder>>

\* main_impl: the refresh token is read from the secret store
MainReadRefreshToken ==
  /\ pc = "main"
  /\ GOOGLE_SECRET_MANAGER
  /\ gsm_calls' = Append(gsm_calls,
       [op |-> "access", secret |-> SECRET_XERO_REFRESH_TOKEN, arg |-> 0])
  /\ \/ /\ latest_enabled(secrets, SECRET_XERO_REFRESH_TOKEN)
        /\ config' = [config EXCEPT
                        !.refresh_token = access_latest(secrets, SECRET_XERO_REFRESH_TOKEN)]
        /\ pc' = "main_oauth"
        /\ err' = err
     \/ /\ Raise("SecretAccessError")
        /\ config' = config
  /\ UNCHANGED <<run, args, GOOGLE_SECRET_MANAGER, catalogFile, configFile,
                 state, persisted, catalog, start_idx, streams, idx, trace,
                 secrets, version, providerToken, loaded, prev, resolver, builder>>

\* main_impl: client id and secret are read from the secret store
MainReadOauthCredentials ==
  /\ pc = "main_oauth"
  /\ gsm_calls' = Append(gsm_calls,
       [op |-> "access", secret |-> SECRET_XERO_OAUTH_CREDENTIALS, arg |-> 0])
  /\ \/ /\ latest_enabled(secrets, SECRET_XERO_OAUTH_CREDENTIALS)
        /\ config' = [config EXCEPT
                        !.client_id = access_latest(secrets, SECRET_XERO_OAUTH_CREDENTIALS),
                        !.client_secret = access_latest(secrets, SECRET_XERO_OAUTH_CREDENTIALS)]
        /\ pc' = "dispatch"
        /\ err' = err
     \/ /\ Raise("SecretAccessError")
        /\ config' = config
  /\ UNCHANGED <<run, args, GOOGLE_SECRET_MANAGER, catalogFile, configFile,
                 state, persisted, catalog, start_idx, streams, idx, trace,
                 secrets, version, providerToken, loaded, prev, resolver, builder>>

\* main_impl entering sync past the credential refresh
MainDispatchPastRefresh ==
  /\ pc = "dispatch"
  /\ IF args.discover
     THEN pc' = "discover" /\ catalog' = catalog
     ELSE IF args.has_catalog
          THEN pc' = "sync_resume" /\ catalog' = catalogFile
          ELSE pc' = "discover" /\ catalog' = catalog
  /\ UNCHANGED <<run, args, GOOGLE_SECRET_MANAGER, catalogFile, configFile, config,
                 state, persisted, start_idx, streams, idx, err, trace,
                 secrets, gsm_calls, version, providerToken, loaded, prev, resolver, builder>>

\* main_impl: discovery mode, sync with the given catalog, or discover first
MainDispatch ==
  /\ pc = "dispatch"
  /\ IF args.discover
     THEN pc' = "discover" /\ catalog' = catalog
     ELSE IF args.has_catalog
          THEN pc' = "sync" /\ catalog' = catalogFile
          ELSE pc' = "discover" /\ catalog' = catalog
  /\ UNCHANGED <<run, args, GOOGLE_SECRET_MANAGER, catalogFile, configFile, config,
                 state, persisted, start_idx, streams, idx, err, trace,
                 secrets, gsm_calls, version, providerToken, loaded, prev, resolver, builder>>

\* discover: the platform-access validation
DiscoverCheck ==
  /\ pc = "discover"
  /\ trace' = Append(trace, Event("check_platform_access", ""))
  /\ \/ pc' = "discover_build" /\ err' = err
     \/ Raise("BadCredsException")
  /\ UNCHANGED <<run, args, GOOGLE_SECRET_MANAGER, catalogFile, configFile, config,
                 state, persisted, catalog, start_idx, streams, idx,
                 secrets, gsm_calls, version, providerToken, loaded, prev, resolver, builder>>

\* the catalog built whether or not the validation has run
DiscoverBuildUnvalidated ==
  /\ pc \in {"discover", "discover_build"}
  /\ trace' = Append(trace, Event("catalog", ""))
  /\ IF args.discover
     THEN pc' = "writeback" /\ catalog' = catalog
     ELSE pc' = "sync" /\ catalog' = discover_catalog
  /\ UNCHANGED <<run, args, GOOGLE_SECRET_MANAGER, catalogFile, configFile, config,
                 state, persisted, start_idx, streams, idx, err,
                 secrets, gsm_calls, version, providerToken, loaded, prev, resolver, builder>>

\* discover: the catalog is built; main_impl dumps it or hands it to sync
DiscoverBuild ==
  /\ pc = "discover_build"
  /\ trace' = Append(trace, Event("catalog", ""))
  /\ IF args.discover
     THEN pc' = "writeback" /\ catalog' = catalog
     ELSE pc' = "sync" /\ catalog' = discover_catalog
  /\ UNCHANGED <<run, args, GOOGLE_SECRET_MANAGER, catalogFile, configFile, config,
                 state, persisted, start_idx, streams, idx, err,
                 secrets, gsm_calls, version, providerToken, loaded, prev, resolver, builder>>

\* sync: the credentials are refreshed before anything else
SyncRefresh ==
  /\ pc = "sync"
  /\ trace' = Append(trace, Event("refresh", ""))
  /\ \/ /\ refresh_accepts(config, providerToken)
        /\ config' = refresh_credentials(config, providerToken)
        /\ configFile' = [configFile EXCEPT !.refresh_token = config'.refresh_token]
        /\ providerToken' = config'.refresh_token
        /\ pc' = "sync_resume"
        /\ err' = err
     \/ /\ Raise("BadCredsException")
        /\ UNCHANGED <<config, configFile, providerToken>>
  /\ UNCHANGED <<run, args, GOOGLE_SECRET_MANAGER, catalogFile,
                 state, persisted, catalog, start_idx, streams, idx,
                 secrets, gsm_calls, version, loaded, prev, resolver, builder>>

\* sync: the resume index and the working list
SyncResume ==
  /\ pc = "sync_resume"
  /\ LET currently_syncing == state.currently_syncing
         start == resume_index(currently_syncing)
     IN IF start < 0
        THEN /\ Raise("ValueError")
             /\ UNCHANGED <<start_idx, streams, idx>>
        ELSE /\ start_idx' = start
             /\ streams' = streams_to_sync(start, stream_ids_to_sync(catalog))
             /\ idx' = 1
             /\ pc' = "sync_loop"
             /\ err' = err
  /\ UNCHANGED <<run, args, GOOGLE_SECRET_MANAGER, catalogFile, configFile, config,
                 state, persisted, catalog, trace,
                 secrets, gsm_calls, version, providerToken, loaded, prev, resolver, builder>>

\* the checkpoint set in memory and not written
SyncCheckpointUnwritten ==
  /\ pc = "sync_loop"
  /\ idx <= Len(streams)
  /\ state' = [state EXCEPT !.currently_syncing = CurrentStream]
  /\ pc' = "sync_schema"
  /\ UNCHANGED <<run, args, GOOGLE_SECRET_MANAGER, catalogFile, configFile, config,
                 persisted, catalog, start_idx, streams, idx, err, trace,
                 secrets, gsm_calls, version, providerToken, loaded, prev, resolver, builder>>

\* sync, loop body: the checkpoint
SyncCheckpoint ==
  /\ pc = "sync_loop"
  /\ idx <= Len(streams)
  /\ state' = [state EXCEPT !.currently_syncing = CurrentStream]
  /\ persisted' = write_state(state')
  /\ trace' = Append(trace, Event("persist", state'.currently_syncing))
  /\ pc' = "sync_schema"
  /\ UNCHANGED <<run, args, GOOGLE_SECRET_MANAGER, catalogFile, configFile, config,
                 catalog, start_idx, streams, idx, err,
                 secrets, gsm_calls, version, providerToken, loaded, prev, resolver, builder>>

\* sync, loop body: load_and_write_schema
SyncWriteSchema ==
  /\ pc = "sync_schema"
  /\ trace' = Append(trace, Event("schema", CurrentStream))
  /\ pc' = "sync_extract"
  /\ UNCHANGED <<run, args, GOOGLE_SECRET_MANAGER, catalogFile, configFile, config,
                 state, persisted, catalog, start_idx, streams, idx, err,
                 secrets, gsm_calls, version, providerToken, loaded, prev, resolver, builder>>

\* sync, loop body: stream.sync(ctx) is entered
SyncExtract ==
  /\ pc = "sync_extract"
  /\ trace' = Append(trace, Event("extract", CurrentStream))
  /\ pc' = "extracting"
  /\ UNCHANGED <<run, args, GOOGLE_SECRET_MANAGER, catalogFile, configFile, config,
                 state, persisted, catalog, start_idx, streams, idx, err,
                 secrets, gsm_calls, version, providerToken, loaded, prev, resolver, builder>>

\* stream.sync(ctx): the stream advances its bookmark and writes the state
ExtractBookmark ==
  /\ pc = "extracting"
  /\ state.bookmarks[CurrentStream] < MaxBookmark
  /\ state' = advance_bookmark(state, CurrentStream)
  /\ persisted' = write_state(state')
  /\ trace' = Append(trace, Event("stream_persist", state'.currently_syncing))
  /\ UNCHANGED <<pc, run, args, GOOGLE_SECRET_MANAGER, catalogFile, configFile, config,
                 catalog, start_idx, streams, idx, err,
                 secrets, gsm_calls, version, providerToken, loaded, prev, resolver, builder>>

\* stream.sync(ctx) returns and the loop moves on
ExtractReturn ==
  /\ pc = "extracting"
  /\ trace' = Append(trace, Event("extracted", CurrentStream))
  /\ idx' = idx + 1
  /\ pc' = "sync_loop"
  /\ UNCHANGED <<run, args, GOOGLE_SECRET_MANAGER, catalogFile, configFile, config,
                 state, persisted, catalog, start_idx, streams, err,
                 secrets, gsm_calls, version, providerToken, loaded, prev, resolver, builder>>

\* a failing extraction after which currently_syncing is cleared and written
ExtractFailClears ==
  /\ pc = "extracting"
  /\ Raise("ExtractionError")
  /\ state' = [state EXCEPT !.currently_syncing = None]
  /\ persisted' = write_state(state')
  /\ trace' = Append(trace, Event("persist", state'.currently_syncing))
  /\ UNCHANGED <<run, args, GOOGLE_SECRET_MANAGER, catalogFile, configFile, config,
                 catalog, start_idx, streams, idx,
                 secrets, gsm_calls, version, providerToken, loaded, prev, resolver, builder>>

\* stream.sync(ctx) raises
ExtractFail ==
  /\ pc = "extracting"
  /\ Raise("ExtractionError")
  /\ UNCHANGED <<run, args, GOOGLE_SECRET_MANAGER, catalogFile, configFile, config,
                 state, persisted, catalog, start_idx, streams, idx, trace,
                 secrets, gsm_calls, version, providerToken, loaded, prev, resolver, builder>>

\* the clearing step taken from inside the loop
SyncClearInLoop ==
  /\ pc = "sync_loop"
  /\ idx > 1 \/ Len(streams) = 0
  /\ state' = [state EXCEPT !.currently_syncing = None]
  /\ persisted' = write_state(state')
  /\ trace' = Append(trace, Event("persist", state'.currently_syncing))
  /\ pc' = "writeback"
  /\ UNCHANGED <<run, args, GOOGLE_SECRET_MANAGER, catalogFile, configFile, config,
                 catalog, start_idx, streams, idx, err,
                 secrets, gsm_calls, version, providerToken, loaded, prev, resolver, builder>>

\* the clearing step that starts from an empty state
SyncClearDropsBookmarks ==
  /\ pc = "sync_loop"
  /\ idx > Len(streams)
  /\ state' = [currently_syncing |-> None, bookmarks |-> NoBookmarks]
  /\ persisted' = write_state(state')
  /\ trace' = Append(trace, Event("persist", state'.currently_syncing))
  /\ pc' = "writeback"
  /\ UNCHANGED <<run, args, GOOGLE_SECRET_MANAGER, catalogFile, configFile, config,
                 catalog, start_idx, streams, idx, err,
                 secrets, gsm_calls, version, providerToken, loaded, prev, resolver, builder>>

\* the end of sync that neither clears nor writes
SyncClearMissing ==
  /\ pc = "sync_loop"
  /\ idx > Len(streams)
  /\ pc' = "writeback"
  /\ UNCHANGED <<run, args, GOOGLE_SECRET_MANAGER, catalogFile, configFile, config,
                 state, persisted, catalog, start_idx, streams, idx, err, trace,
                 secrets, gsm_calls, version, providerToken, loaded, prev, resolver, builder>>

\* the end of sync without the clearing of currently_syncing
SyncNoClear ==
  /\ pc = "sync_loop"
  /\ idx > Len(streams)
  /\ persisted' = write_state(state)
  /\ trace' = Append(trace, Event("persist", None))
  /\ pc' = "writeback"
  /\ UNCHANGED <<run, args, GOOGLE_SECRET_MANAGER, catalogFile, configFile, config,
                 state, catalog, start_idx, streams, idx, err,
                 secrets, gsm_calls, version, providerToken, loaded, prev, resolver, builder>>

\* sync, after the loop: currently_syncing is cleared and the state written
SyncClear ==
  /\ pc = "sync_loop"
  /\ idx > Len(streams)
  /\ state' = [state EXCEPT !.currently_syncing = None]
  /\ persisted' = write_state(state')
  /\ trace' = Append(trace, Event("persist", state'.currently_syncing))
  /\ pc' = "writeback"
  /\ UNCHANGED <<run, args, GOOGLE_SECRET_MANAGER, catalogFile, configFile, config,
                 catalog, start_idx, streams, idx, err,
                 secrets, gsm_calls, version, providerToken, loaded, prev, resolver, builder>>

\* main_impl: the switch is off, nothing is written back
MainNoWriteBack ==
  /\ pc = "writeback"
  /\ ~GOOGLE_SECRET_MANAGER
  /\ pc' = "done"
  /\ UNCHANGED <<run, args, GOOGLE_SECRET_MANAGER, catalogFile, configFile, config,
                 state, persisted, catalog, start_idx, streams, idx, err, trace,
                 secrets, gsm_calls, version, providerToken, loaded, prev, resolver, builder>>

\* main_impl: the refresh token is written back as a new secret version
MainAddSecretVersion ==
  /\ pc = "writeback"
  /\ GOOGLE_SECRET_MANAGER
  /\ gsm_calls' = Append(gsm_calls,
       [op |-> "add", secret |-> SECRET_XERO_REFRESH_TOKEN,
        arg |-> writeback_payload(config)])
  /\ \/ /\ secrets' = add_version(secrets, SECRET_XERO_REFRESH_TOKEN,
                                  writeback_payload(config))
        /\ version' = added_name(secrets, SECRET_XERO_REFRESH_TOKEN)
        /\ pc' = "destroy"
        /\ err' = err
     \/ /\ Raise("SecretAddError")
        /\ UNCHANGED <<secrets, version>>
  /\ UNCHANGED <<run, args, GOOGLE_SECRET_MANAGER, catalogFile, configFile, config,
                 state, persisted, catalog, start_idx, streams, idx, trace,
                 providerToken, loaded, prev, resolver, builder>>

\* main_impl: the version before the new one is destroyed
MainDestroyOldVersion ==
  /\ pc = "destroy"
  /\ LET oldVersion == old_version_name(version)
     IN /\ gsm_calls' = Append(gsm_calls,
             [op |-> "destroy", secret |-> oldVersion[1],
              arg |-> FromDigits(oldVersion[3])])
        /\ \/ /\ version_exists(secrets, oldVersion)
              /\ secrets' = destroy_version(secrets, oldVersion)
              /\ pc' = "done"
              /\ err' = err
           \/ /\ Raise("SecretDestroyError")
              /\ secrets' = secrets
  /\ UNCHANGED <<run, args, GOOGLE_SECRET_MANAGER, catalogFile, configFile, config,
                 state, persisted, catalog, start_idx, streams, idx, trace,
                 version, providerToken, loaded, prev, resolver, builder>>

Ended == pc \in {"done", "failed", "killed"}

\* the process is terminated from outside, wherever it is
Terminate ==
  /\ ~Ended
  /\ pc' = "killed"
  /\ UNCHANGED <<run, args, GOOGLE_SECRET_MANAGER, catalogFile, configFile, config,
                 state, persisted, catalog, start_idx, streams, idx, err, trace,
                 secrets, gsm_calls, version, providerToken, loaded, prev, resolver, builder>>

\* the tap is invoked again with the same command line: config and state are
\* loaded from what is on disk
NextRun ==
  /\ Ended
  /\ run < MaxRuns
  /\ run' = run + 1
  /\ args' = args
  /\ LET first == loaded.currently_syncing
         \* the selected streams at or after the stream this invocation loaded
         owed == {catalogFile[i].tap_stream_id :
                    i \in {k \in DOMAIN catalogFile :
                             /\ catalogFile[k].selected
                             /\ first \in StreamIdSet =>
                                  ListIndex(all_stream_ids, catalogFile[k].tap_stream_id)
                                    >= ListIndex(all_stream_ids, first)}}
         extracted == {trace[i][2] :
                         i \in {k \in DOMAIN trace : trace[k][1] = "extracted"}}
         same == prev.same_catalog /\ ~args.discover /\ args.has_catalog
         refreshed == /\ \E i \in DOMAIN trace : trace[i][1] = "refresh"
                      /\ ~(pc = "failed" /\ err = "BadCredsException")
     IN prev' = [pc |-> pc, err |-> err,
                 at |-> IF err = "ExtractionError" THEN CurrentStream ELSE None,
                 discover |-> args.discover, has_catalog |-> args.has_catalog,
                 currently_syncing |-> persisted.currently_syncing,
                 same_catalog |-> same,
                 owing |-> IF same
                           THEN (IF run = 1 THEN owed ELSE prev.owing) \ extracted
                           ELSE {},
                 unsaved |-> refreshed /\ Len(version) # 3]
  /\ config' = configFile
  /\ state' = persisted
  /\ loaded' = persisted
  /\ catalog' = <<>>
  /\ start_idx' = 0
  /\ streams' = <<>>
  /\ idx' = 1
  /\ err' = "none"
  /\ trace' = <<>>
  /\ gsm_calls' = <<>>
  /\ version' = <<>>
  /\ pc' = "main"
  /\ UNCHANGED <<GOOGLE_SECRET_MANAGER, catalogFile, configFile, persisted,
                 secrets, providerToken, resolver, builder>>

Next ==
  \/ MainNoSecretRead
  \/ MainReadRefreshToken
  \/ MainReadOauthCredentials
  \/ MainDispatch
  \/ DiscoverCheck
  \/ DiscoverBuild
  \/ SyncRefresh
  \/ SyncResume
  \/ SyncCheckpoint
  \/ SyncWriteSchema
  \/ SyncExtract
  \/ ExtractBookmark
  \/ ExtractReturn
  \/ ExtractFail
  \/ SyncClear
  \/ MainNoWriteBack
  \/ MainAddSecretVersion
  \/ MainDestroyOldVersion
  \/ Terminate
  \/ NextRun

Spec == Init /\ [][Next]_vars

TypeOK ==
  /\ run \in 1..MaxRuns
  /\ idx \in 1..(Len(streams) + 1)
  /\ start_idx \in 0..(Len(all_streams) - 1)

\* ---- vocabulary of the properties --------------------------------------------
Ids(ss) == [i \in DOMAIN ss |-> ss[i].tap_stream_id]

\* the arguments of the events of one kind, in the order they happened
TraceArgs(op) ==
  LET sel == SelectSeq(trace, LAMBDA e : e[1] = op)
  IN [i \in DOMAIN sel |-> sel[i][2]]

Calls(op) == SelectSeq(gsm_calls, LAMBDA c : c.op = op)

\* 1-based position of a declared stream id in the declared order
PosOf(id) == CHOOSE i \in DOMAIN all_stream_ids : all_stream_ids[i] = id

InDeclaredOrder(ids) ==
  \A i, j \in DOMAIN ids : i < j => PosOf(ids[i]) < PosOf(ids[j])

SelectedSet(cat) == {cat[i].tap_stream_id : i \in {k \in DOMAIN cat : cat[k].selected}}

\* the declared order restricted to a set of ids
DeclaredOrderOf(S) == SelectSeq(all_stream_ids, LAMBDA id : id \in S)

\* sync has run to its last line in this run
SyncReturned == trace # <<>> /\ Last(trace) = Event("persist", None)

\* sync has computed its working list and is in or past the loop
InLoop == pc \in {"sync_loop", "sync_schema", "sync_extract", "extracting"}

SchedulingOps == {"persist", "schema", "extract", "stream_persist", "extracted"}

\* ---- C1 -----------------------------------------------------------------------
\* C1: when the state file names a declared stream K under currently_syncing, no
\* stream declared before K is checkpointed, schema-emitted or extracted, and a
\* sync that returns has extracted exactly the selected streams at or after K.
C1_MidRunResume ==
  loaded.currently_syncing \in StreamIdSet =>
    LET K == loaded.currently_syncing
        expected == {id \in SelectedSet(catalog) : PosOf(id) >= PosOf(K)}
    IN /\ \A i \in DOMAIN trace :
            trace[i][1] \in {"schema", "extract", "extracted"}
              => /\ PosOf(trace[i][2]) >= PosOf(K)
                 /\ trace[i][2] \in SelectedSet(catalog)
       /\ SyncReturned =>
            /\ Range(TraceArgs("extract")) = expected
            /\ Range(TraceArgs("extracted")) = expected
            /\ Range(TraceArgs("schema")) = expected
            /\ Len(TraceArgs("extract")) = Cardinality(expected)

\* every stream is selected and the state file names contacts: the run extracts
\* contacts and invoices and leaves bank_transactions alone
C1_Witness ==
  /\ SyncReturned
  /\ loaded.currently_syncing = "contacts"
  /\ SelectedSet(catalog) = StreamIdSet
  /\ TraceArgs("extracted") = <<"contacts", "invoices">>

\* ---- C2 -----------------------------------------------------------------------
\* C2: checkpoints, schema emissions and extractions each happen in declared
\* order, and the sequence a returned sync has executed is the one every catalog
\* selecting the same set of ids, in whatever order, yields.
C2_OrderIndependence ==
  /\ InDeclaredOrder(TraceArgs("schema"))
  /\ InDeclaredOrder(TraceArgs("extract"))
  /\ InDeclaredOrder(SelectSeq(TraceArgs("persist"), LAMBDA a : a # None))
  /\ SyncReturned =>
       \A c2 \in Catalogs :
         SelectedSet(c2) = SelectedSet(catalog) =>
           TraceArgs("extract") = Ids(streams_to_sync(start_idx, stream_ids_to_sync(c2)))

\* a catalog listing invoices before bank_transactions still runs them A, C
C2_Witness ==
  /\ SyncReturned
  /\ stream_ids_to_sync(catalog) = <<"invoices", "bank_transactions">>
  /\ TraceArgs("extract") = <<"bank_transactions", "invoices">>

\* ---- C3 -----------------------------------------------------------------------
InvalidResume ==
  Truthy(loaded.currently_syncing) /\ loaded.currently_syncing \notin StreamIdSet

\* sync has got past the refresh in this run
Refreshed ==
  /\ Len(TraceArgs("refresh")) > 0
  /\ ~(pc = "failed" /\ err = "BadCredsException")
  /\ pc # "sync_resume"

NothingScheduled ==
  \A i \in DOMAIN trace : trace[i][1] \notin SchedulingOps

\* C3 as stated: with an undeclared id under currently_syncing, sync fails with
\* InvalidResumeStateError before any schema emission or extraction.
C3_InvalidResumeStateError ==
  (InvalidResume /\ Refreshed /\ pc # "killed") =>
     /\ pc = "failed"
     /\ err = "InvalidResumeStateError"
     /\ NothingScheduled

\* C3 amended: with a non-empty undeclared id under currently_syncing, sync
\* fails with the ValueError of list.index, before any state write, schema
\* emission or extraction; it never enters the loop from position 0.
C3_InvalidResumeValueError ==
  InvalidResume =>
     /\ NothingScheduled
     /\ ~InLoop
     /\ persisted = loaded
     /\ (Refreshed /\ pc # "killed") => (pc = "failed" /\ err = "ValueError")

C3_Witness ==
  /\ loaded.currently_syncing = ForeignId
  /\ SelectedSet(catalog) # {}
  /\ Len(TraceArgs("refresh")) = 1
  /\ pc = "failed"
  /\ err = "ValueError"

\* ---- C4 -----------------------------------------------------------------------
\* C4: while a stream's schema is being emitted or its extraction runs, the
\* persisted currently_syncing is that stream; every extraction is preceded by
\* the emission of the stream's schema and that by the stream's checkpoint, and
\* a returned sync has done all three for every stream of the working list.
C4_CheckpointBeforeWork ==
  /\ pc \in {"sync_schema", "sync_extract", "extracting"} =>
       /\ persisted.currently_syncing = CurrentStream
       /\ state.currently_syncing = CurrentStream
  /\ \A i \in DOMAIN trace :
       /\ trace[i][1] = "extract" =>
            \E j \in 1..(i - 1) : /\ trace[j] = Event("schema", trace[i][2])
                                  /\ \E k \in 1..(j - 1) :
                                       trace[k] = Event("persist", trace[i][2])
       /\ trace[i][1] = "schema" =>
            \E k \in 1..(i - 1) : trace[k] = Event("persist", trace[i][2])
  /\ SyncReturned =>
       /\ TraceArgs("extract") = Ids(streams)
       /\ TraceArgs("schema") = Ids(streams)
       /\ SelectSeq(TraceArgs("persist"), LAMBDA a : a # None) = Ids(streams)

C4_Witness ==
  /\ pc = "extracting"
  /\ idx = 2
  /\ CurrentStream = "invoices"
  /\ loaded.currently_syncing = "bank_transactions"
  /\ persisted.currently_syncing = "invoices"

\* ---- C5 -----------------------------------------------------------------------
StateWrites ==
  SelectSeq(trace, LAMBDA e : e[1] \in {"persist", "stream_persist"})

\* C5: an empty currently_syncing is written only by the last state write of a
\* run, after every stream of the working list has been extracted; from the
\* first checkpoint until then the persisted currently_syncing is non-empty.
C5_CleanCompletionSignal ==
  /\ \A i \in DOMAIN StateWrites :
       ~Truthy(StateWrites[i][2]) =>
          /\ i = Len(StateWrites)
          /\ TraceArgs("extracted") = Ids(streams)
          /\ pc \in {"writeback", "destroy", "done", "failed", "killed"}
  /\ (StateWrites # <<>> /\ ~SyncReturned) => Truthy(persisted.currently_syncing)
  /\ (Ended /\ ~args.discover /\ TraceArgs("extracted") # Ids(streams)) =>
        \A i \in DOMAIN StateWrites : Truthy(StateWrites[i][2])

\* a run killed inside its second stream leaves the marker of that stream
C5_Witness ==
  /\ pc = "killed"
  /\ Len(streams) = 3
  /\ TraceArgs("extracted") = <<"bank_transactions">>
  /\ TraceArgs("extract") = <<"bank_transactions", "contacts">>
  /\ persisted.currently_syncing = "contacts"

\* ---- C6 -----------------------------------------------------------------------
\* C6: when the extraction of stream S fails the run ends with that failure, no
\* stream after S has been checkpointed, schema-emitted or extracted, the
\* persisted currently_syncing is S, and the next invocation loads S and its
\* sync resumes at S's position (with the same catalog, at S itself).
C6_ExtractionFailureAborts ==
  /\ (pc = "failed" /\ err = "ExtractionError") =>
       /\ persisted.currently_syncing = CurrentStream
       /\ Last(TraceArgs("extract")) = CurrentStream
       /\ TraceArgs("extract") = SubSeq(Ids(streams), 1, idx)
       /\ TraceArgs("schema") = SubSeq(Ids(streams), 1, idx)
       /\ TraceArgs("persist") = SubSeq(Ids(streams), 1, idx)
       /\ TraceArgs("extracted") = SubSeq(Ids(streams), 1, idx - 1)
  /\ (prev.pc = "failed" /\ prev.err = "ExtractionError") =>
       /\ loaded.currently_syncing = prev.at
       /\ (InLoop /\ ~args.discover) =>
            /\ start_idx = PosOf(prev.at) - 1
            /\ (args.has_catalog /\ prev.has_catalog) =>
                 /\ streams # <<>>
                 /\ streams[1].tap_stream_id = prev.at
                 /\ TraceArgs("persist") # <<>> => TraceArgs("persist")[1] = prev.at

\* the run after a failure inside contacts is extracting contacts again
C6_Witness ==
  /\ prev.pc = "failed"
  /\ prev.err = "ExtractionError"
  /\ prev.at = "contacts"
  /\ SelectedSet(catalog) = StreamIdSet
  /\ pc = "extracting"
  /\ TraceArgs("extract") = <<"contacts">>

\* ---- C7 -----------------------------------------------------------------------
\* C7: a run whose sync returned leaves currently_syncing cleared in the
\* persisted state, and the sync of the next invocation starts at position 0
\* and processes all the selected streams in declared order.
C7_ResumeIdempotence ==
  /\ SyncReturned => persisted.currently_syncing = None
  /\ (pc = "done" /\ ~args.discover) => persisted.currently_syncing = None
  /\ (prev.pc = "done" /\ ~prev.discover) =>
       /\ loaded.currently_syncing = None
       /\ (InLoop \/ SyncReturned) =>
            /\ start_idx = 0
            /\ Ids(streams) = DeclaredOrderOf(SelectedSet(catalog))
       /\ SyncReturned => TraceArgs("extracted") = DeclaredOrderOf(SelectedSet(catalog))

\* the second of two complete runs has extracted all three streams again
C7_Witness ==
  /\ prev.pc = "done"
  /\ ~prev.discover
  /\ prev.has_catalog
  /\ loaded.bookmarks["invoices"] = 1
  /\ SyncReturned
  /\ TraceArgs("extracted") = <<"bank_transactions", "contacts", "invoices">>

\* ---- C8 -----------------------------------------------------------------------
\* C8: every state write, schema emission and extraction of a run comes after the
\* run's credential refresh, and a run whose refresh failed has written no state,
\* emitted no schema and called no extraction.
C8_EagerCredentialRefresh ==
  /\ \A i \in DOMAIN trace :
       trace[i][1] \in SchedulingOps =>
         \E j \in 1..(i - 1) : trace[j] = Event("refresh", "")
  /\ InLoop => Len(TraceArgs("refresh")) = 1
  /\ (pc = "failed" /\ err = "BadCredsException") =>
       /\ NothingScheduled
       /\ persisted = loaded

\* a run resuming at contacts whose refresh is refused
C8_Witness ==
  /\ pc = "failed"
  /\ err = "BadCredsException"
  /\ Last(trace) = Event("refresh", "")
  /\ SelectedSet(catalog) # {}
  /\ loaded.currently_syncing = "contacts"

\* ---- C9 -----------------------------------------------------------------------
\* C9: a run issues at most one destroy request; it names the refresh-token
\* secret and the version one below the version the store has just added; the
\* newest version of a secret is never destroyed and the other secret is never
\* touched.
C9_RotationBookkeeping ==
  LET destroys == Calls("destroy")
      N == Len(secrets[SECRET_XERO_REFRESH_TOKEN])
  IN /\ Len(destroys) <= 1
     /\ \A i \in DOMAIN destroys :
          /\ Len(Calls("add")) = 1
          /\ Len(version) = 3
          /\ destroys[i].secret = SECRET_XERO_REFRESH_TOKEN
          /\ destroys[i].arg = N - 1
     /\ secrets[SECRET_XERO_REFRESH_TOKEN][N].st = "enabled"
     /\ \A v \in DOMAIN secrets[SECRET_XERO_OAUTH_CREDENTIALS] :
          secrets[SECRET_XERO_OAUTH_CREDENTIALS][v].st = "enabled"
     /\ \A c \in Range(gsm_calls) :
          c.secret = SECRET_XERO_OAUTH_CREDENTIALS => c.op = "access"
     /\ (pc = "done" /\ GOOGLE_SECRET_MANAGER) =>
          secrets[SECRET_XERO_REFRESH_TOKEN][N - 1].st = "destroyed"

\* version 10 was added and version 9 destroyed
C9_Witness ==
  /\ pc = "done"
  /\ Len(version) = 3
  /\ FromDigits(Last(version)) = InitVersions + 1
  /\ Len(Calls("destroy")) = 1
  /\ Calls("destroy")[1].arg = InitVersions
  /\ secrets[SECRET_XERO_REFRESH_TOKEN][InitVersions].st = "destroyed"

\* ---- C10 ----------------------------------------------------------------------
RunErrors == {"SecretAccessError", "BadCredsException", "ValueError", "ExtractionError"}

\* C10: a new secret version is added only after discovery or sync has returned
\* without error; a run in which they failed issues neither add nor destroy; the
\* payload is the refresh token held in memory (after a sync, the rotated one);
\* a destroy is issued only after the add has succeeded.
C10_RotationAfterSuccess ==
  LET adds == Calls("add")
      destroys == Calls("destroy")
  IN /\ adds # <<>> =>
          /\ GOOGLE_SECRET_MANAGER
          /\ Len(adds) = 1
          /\ err \notin RunErrors
          /\ IF args.discover THEN Last(trace) = Event("catalog", "") ELSE SyncReturned
          /\ adds[1].arg = config.refresh_token
          /\ ~args.discover => adds[1].arg = providerToken
     /\ (pc = "failed" /\ err \in RunErrors) => (adds = <<>> /\ destroys = <<>>)
     /\ \A i \in DOMAIN gsm_calls :
          gsm_calls[i].op = "destroy" =>
            /\ \E j \in 1..(i - 1) : gsm_calls[j].op = "add"
            /\ Len(version) = 3
            /\ FromDigits(Last(version)) = Len(secrets[SECRET_XERO_REFRESH_TOKEN])
            /\ Last(secrets[SECRET_XERO_REFRESH_TOKEN]).data = adds[1].arg

\* after a sync the rotated token, not the one read at start, went to the store
C10_Witness ==
  /\ pc = "done"
  /\ ~args.discover
  /\ Len(Calls("add")) = 1
  /\ Calls("add")[1].arg = InitToken + 1
  /\ Last(secrets[SECRET_XERO_REFRESH_TOKEN]).data = InitToken + 1
  /\ Len(Calls("destroy")) = 1

\* ---- C11 ----------------------------------------------------------------------
\* C11 as stated: a destroy request that fails after the new version was written
\* is swallowed; the run still finishes successfully and no error reaches main.
C11_DestroyFailureNonFatal ==
  (Len(Calls("destroy")) > 0 /\ Len(version) = 3 /\ pc # "killed") =>
     /\ pc = "done"
     /\ err = "none"

\* ---- C12 ----------------------------------------------------------------------
\* C12: with the switch on, the refresh token and the client id and secret of
\* the secret store are in the config before the validation probe, the refresh,
\* discovery or sync do anything; with the switch off the secret store receives
\* no request and the config stays the one loaded from the config file.
C12_ExternalReconcileGated ==
  /\ GOOGLE_SECRET_MANAGER =>
       /\ (pc \in {"dispatch", "discover", "sync"} \/ trace # <<>>) =>
            /\ Len(gsm_calls) >= 2
            /\ gsm_calls[1] = [op |-> "access", secret |-> SECRET_XERO_REFRESH_TOKEN,
                               arg |-> 0]
            /\ gsm_calls[2] = [op |-> "access", secret |-> SECRET_XERO_OAUTH_CREDENTIALS,
                               arg |-> 0]
            /\ config.client_id = GsmClient
            /\ config.client_secret = GsmClient
       /\ pc \in {"dispatch", "discover", "discover_build", "sync"} =>
            config.refresh_token = access_latest(secrets, SECRET_XERO_REFRESH_TOKEN)
  /\ ~GOOGLE_SECRET_MANAGER =>
       /\ gsm_calls = <<>>
       /\ secrets = InitSecrets
       /\ config = configFile
       /\ config.client_id = CfgClient
       /\ config.client_secret = CfgClient

\* the config file holds the token the last run obtained, the store an older
\* one, and the run is about to refresh with the store's
C12_Witness ==
  /\ GOOGLE_SECRET_MANAGER
  /\ pc = "sync"
  /\ configFile.refresh_token = InitToken + 1
  /\ config.refresh_token = InitToken
  /\ config.client_id = GsmClient

\* field names of the schemas and descriptors load_metadata is applied to
FieldNames == {"ContactID", "UpdatedDateUTC", "Name"}

\* the lists without repetition over a set of names, up to a length
ListsOver(S, n) ==
  {q \in UNION {[1..k -> S] : k \in 0..n} :
     \A i, j \in DOMAIN q : i # j => q[i] # q[j]}

StreamDescriptors ==
  [tap_stream_id : {"contacts"},
   pk_fields : ListsOver(FieldNames, 2),
   bookmark_key : FieldNames \cup {None},
   replication_method : {"INCREMENTAL", "FULL_TABLE"}]

SchemaDocuments == [properties : ListsOver(FieldNames, 3)]

\* the scheduler at rest, for the specifications of the pure functions
Parked ==
  /\ pc = "main"
  /\ run = 1
  /\ args = [discover |-> TRUE, has_catalog |-> FALSE]
  /\ GOOGLE_SECRET_MANAGER = FALSE
  /\ catalogFile = <<>>
  /\ configFile = [refresh_token |-> InitToken, client_id |-> CfgClient,
                   client_secret |-> CfgClient]
  /\ config = configFile
  /\ persisted = [currently_syncing |-> None, bookmarks |-> NoBookmarks]
  /\ state = persisted
  /\ loaded = persisted
  /\ catalog = <<>>
  /\ start_idx = 0
  /\ streams = <<>>
  /\ idx = 1
  /\ err = "none"
  /\ trace = <<>>
  /\ secrets = InitSecrets
  /\ gsm_calls = <<>>
  /\ version = <<>>
  /\ providerToken = InitToken
  /\ prev = NoPrev

scheduler_vars ==
  <<pc, run, args, GOOGLE_SECRET_MANAGER, catalogFile, configFile, config,
    state, persisted, catalog, start_idx, streams, idx, err, trace,
    secrets, gsm_calls, version, providerToken, loaded, prev>>

InitMetadata ==
  /\ Parked
  /\ resolver = NoResolver
  /\ builder \in [status : {"ready"}, stream : StreamDescriptors,
                  schema : SchemaDocuments, mdata : {<<>>}]

\* load_metadata is applied to its arguments
BuildMetadata ==
  /\ builder.status = "ready"
  /\ builder' = [builder EXCEPT !.status = "done",
                                !.mdata = load_metadata(builder.stream, builder.schema)]
  /\ UNCHANGED <<scheduler_vars, resolver>>

NextMetadata == BuildMetadata

SpecMetadata == InitMetadata /\ [][NextMetadata]_vars

\* ---- C13 ----------------------------------------------------------------------
\* the entries load_metadata returned for a field
FieldEntries(f) ==
  SelectSeq(builder.mdata, LAMBDA e : e.breadcrumb = <<"properties", f>>)

\* C13: in the metadata load_metadata returns, every field of the schema's
\* properties has exactly one entry, which holds one inclusion value:
\* 'automatic' if and only if the field is in pk_fields or is the bookmark_key,
\* 'available' otherwise.
C13_MetadataInclusion ==
  builder.status = "done" =>
    \A f \in Range(builder.schema.properties) :
      /\ Len(FieldEntries(f)) = 1
      /\ DOMAIN FieldEntries(f)[1].metadata = {"inclusion"}
      /\ FieldEntries(f)[1].metadata["inclusion"] \in {"automatic", "available"}
      /\ FieldEntries(f)[1].metadata["inclusion"] = "automatic"
           <=> (f \in Range(builder.stream.pk_fields) \/ f = builder.stream.bookmark_key)

\* the bookmark key is no primary key and is automatic, Name is available
C13_Witness ==
  /\ builder.status = "done"
  /\ builder.stream.pk_fields = <<"ContactID">>
  /\ builder.stream.bookmark_key = "UpdatedDateUTC"
  /\ builder.schema.properties = <<"ContactID", "Name", "UpdatedDateUTC">>
  /\ FieldEntries("UpdatedDateUTC")[1].metadata["inclusion"] = "automatic"
  /\ FieldEntries("ContactID")[1].metadata["inclusion"] = "automatic"
  /\ FieldEntries("Name")[1].metadata["inclusion"] = "available"

\* ---- load_schema --------------------------------------------------------------
\* ids of the schema files
SchemaIds == {"invoices", "contacts", "accounts"}

\* the schema files: for each id the tap_schema_dependencies list of its document
SchemaFiles == [SchemaIds -> ListsOver(SchemaIds, 2)]

\* a call of load_schema: the id, the dependencies still to load, the refs so far
Frame(files, id) == [id |-> id, todo |-> files[id], refs |-> {}]

\* the document a call returns: the dependency list is popped, the refs inlined
Resolved(frame) == [id |-> frame.id, inlined |-> frame.refs]

InitSchema ==
  /\ Parked
  /\ builder = NoBuilder
  /\ resolver \in [status : {"ready"}, graph : SchemaFiles, root : SchemaIds,
                   stack : {<<>>}, result : {<<>>}, err : {"none"}]

\* load_schema(tap_stream_id) is called for the root
LoadSchemaCall ==
  /\ resolver.status = "ready"
  /\ resolver' = [resolver EXCEPT !.status = "running",
                                  !.stack = <<Frame(resolver.graph, resolver.root)>>]
  /\ UNCHANGED <<scheduler_vars, builder>>

\* load_schema: the loop calls load_schema for the next dependency
LoadSchemaRecurse ==
  /\ resolver.status = "running"
  /\ Last(resolver.stack).todo # <<>>
  /\ Len(resolver.stack) < RecursionLimit
  /\ resolver' = [resolver EXCEPT
                    !.stack = Append(@, Frame(resolver.graph, Head(Last(@).todo)))]
  /\ UNCHANGED <<scheduler_vars, builder>>

\* load_schema: the interpreter refuses one more frame
LoadSchemaOverflow ==
  /\ resolver.status = "running"
  /\ Last(resolver.stack).todo # <<>>
  /\ Len(resolver.stack) >= RecursionLimit
  /\ resolver' = [resolver EXCEPT !.status = "failed", !.err = "RecursionError"]
  /\ UNCHANGED <<scheduler_vars, builder>>

\* load_schema: every dependency is loaded, the document is returned
LoadSchemaReturn ==
  /\ resolver.status = "running"
  /\ Last(resolver.stack).todo = <<>>
  /\ LET n == Len(resolver.stack)
         doc == Resolved(resolver.stack[n])
     IN IF n = 1
        THEN resolver' = [resolver EXCEPT !.status = "done", !.result = doc,
                                          !.stack = <<>>]
        ELSE resolver' = [resolver EXCEPT
                            !.stack = [SubSeq(@, 1, n - 1) EXCEPT
                                         ![n - 1].refs = @ \cup {doc},
                                         ![n - 1].todo = Tail(@)]]
  /\ UNCHANGED <<scheduler_vars, builder>>

NextSchema ==
  \/ LoadSchemaCall
  \/ LoadSchemaRecurse
  \/ LoadSchemaOverflow
  \/ LoadSchemaReturn

SpecSchema == InitSchema /\ [][NextSchema]_vars

\* ---- C14 ----------------------------------------------------------------------
\* ids reachable from an id along dependency lists, in at most n steps
RECURSIVE ReachableIn(_, _, _)
ReachableIn(files, S, n) ==
  IF n = 0 THEN S
  ELSE ReachableIn(files, S \cup UNION {Range(files[x]) : x \in S}, n - 1)

DependenciesOf(files, id) ==
  ReachableIn(files, Range(files[id]), Cardinality(SchemaIds))

CycleReachable(files, id) ==
  \E x \in DependenciesOf(files, id) \cup {id} : x \in DependenciesOf(files, x)

\* the ids of the documents inlined in a document, at any depth
RECURSIVE InlinedIds(_)
InlinedIds(doc) ==
  {d.id : d \in doc.inlined} \cup UNION {InlinedIds(d) : d \in doc.inlined}

\* C14 as stated: load_schema ends for every set of schema files; without a
\* reachable cycle it returns the document with all transitive dependencies
\* inlined, and with a reachable cycle it fails with SchemaCycleError.
C14_SchemaResolutionTotal ==
  /\ resolver.status = "done" =>
       /\ ~CycleReachable(resolver.graph, resolver.root)
       /\ resolver.result.id = resolver.root
       /\ InlinedIds(resolver.result) = DependenciesOf(resolver.graph, resolver.root)
  /\ resolver.status = "failed" =>
       /\ CycleReachable(resolver.graph, resolver.root)
       /\ resolver.err = "SchemaCycleError"

\* ---- C15 ----------------------------------------------------------------------
ValidationFailed ==
  /\ pc = "failed"
  /\ err = "BadCredsException"
  /\ Last(trace) = Event("check_platform_access", "")

\* C15: discover builds its catalog only after the platform-access validation
\* has succeeded; a failed validation ends discover without a catalog; the
\* catalog it returns has one entry per declared stream, in declared order, with
\* the stream's pk_fields as key_properties.
C15_DiscoveryValidatesFirst ==
  /\ \A i \in DOMAIN trace :
       trace[i][1] = "catalog" =>
         /\ i > 1
         /\ trace[i - 1] = Event("check_platform_access", "")
  /\ pc = "discover_build" => Last(trace) = Event("check_platform_access", "")
  /\ ValidationFailed =>
       /\ TraceArgs("catalog") = <<>>
       /\ Len(catalog) = 0
  /\ (~args.has_catalog /\ Len(TraceArgs("catalog")) > 0 /\ ~args.discover) =>
       /\ Len(catalog) = Len(all_streams)
       /\ \A i \in DOMAIN catalog :
            /\ catalog[i].tap_stream_id = all_streams[i].tap_stream_id
            /\ catalog[i].key_properties = all_streams[i].pk_fields

\* sync was given no catalog, discover validated and returned the three entries
C15_Witness ==
  /\ ~args.discover
  /\ ~args.has_catalog
  /\ pc = "sync"
  /\ trace = <<Event("check_platform_access", ""), Event("catalog", "")>>
  /\ Ids(catalog) = all_stream_ids
  /\ catalog[3].key_properties = <<"InvoiceID">>

\* ---- C16 ----------------------------------------------------------------------
\* the selected streams at or after the stream an invocation loaded
Owed ==
  {id \in SelectedSet(catalogFile) :
     loaded.currently_syncing \in StreamIdSet
       => PosOf(id) >= PosOf(loaded.currently_syncing)}

\* what the first invocation owed and no extraction has returned for, as this
\* invocation started
Owing == IF run = 1 THEN Owed ELSE prev.owing

\* C16: over invocations with the same catalog, however the earlier ones ended,
\* once a sync returns every selected stream at or after the first invocation's
\* start position has had an extraction that returned; every invocation loads
\* the currently_syncing last persisted and its sync starts at that stream.
C16_CrashResumeNeverSkips ==
  /\ (SyncReturned /\ prev.same_catalog /\ args.has_catalog)
       => Owing \subseteq Range(TraceArgs("extracted"))
  /\ run > 1 => loaded.currently_syncing = prev.currently_syncing
  /\ InLoop =>
       IF Truthy(loaded.currently_syncing)
       THEN /\ start_idx = PosOf(loaded.currently_syncing) - 1
            /\ loaded.currently_syncing \in SelectedSet(catalog)
                 => streams[1].tap_stream_id = loaded.currently_syncing
       ELSE start_idx = 0

\* the first invocation was killed inside contacts after bank_transactions had
\* been extracted; the second resumed at contacts and returned
C16_Witness ==
  /\ run = 2
  /\ prev.pc = "killed"
  /\ prev.same_catalog
  /\ args.has_catalog
  /\ prev.owing = {"contacts", "invoices"}
  /\ loaded.currently_syncing = "contacts"
  /\ SyncReturned
  /\ TraceArgs("extracted") = <<"contacts", "invoices">>

\* ---- C17 ----------------------------------------------------------------------
\* C17 as stated: with the switch on, after an invocation that refreshed the
\* token and did not write it back, the refresh token the next invocation
\* refreshes with is the one the provider accepts.
C17_CredentialContinuity ==
  (/\ GOOGLE_SECRET_MANAGER
   /\ prev.unsaved
   /\ prev.pc = "failed"
   /\ prev.err \in {"ExtractionError", "SecretAddError"}
   /\ pc = "sync")
     => refresh_accepts(config, providerToken)

\* ---- C18 ----------------------------------------------------------------------
\* C18: a step of the scheduler that writes the state (checkpoint or clear)
\* changes the currently_syncing key only and persists the bookmarks as the
\* initial state or the extractions left them; bookmarks change only inside an
\* extraction, and only the bookmark of the stream being extracted.
C18_SchedulerWriteFootprint ==
  [][ /\ (pc = "sync_loop" /\ pc' \in {"sync_schema", "writeback"}) =>
           /\ state'.bookmarks = state.bookmarks
           /\ persisted' = [state EXCEPT !.currently_syncing = state'.currently_syncing]
           /\ persisted'.bookmarks = persisted.bookmarks
      /\ state'.bookmarks # state.bookmarks =>
           /\ pc = "extracting"
           /\ \A id \in StreamIdSet \ {CurrentStream} :
                state'.bookmarks[id] = state.bookmarks[id]
    ]_vars

\* the checkpoint of the second stream has been written and the bookmark the
\* first extraction left is in the persisted state
C18_Witness ==
  /\ pc = "sync_schema"
  /\ idx = 2
  /\ persisted.currently_syncing = streams[2].tap_stream_id
  /\ persisted.bookmarks[streams[1].tap_stream_id] = 1
  /\ loaded.bookmarks[streams[1].tap_stream_id] = 0

\* ---- C19 ----------------------------------------------------------------------
\* C19: when the state names a declared stream K that the catalog does not
\* select, sync raises no error at the resume index; its working list is the
\* selected streams declared after K, K is never checkpointed, schema-emitted or
\* extracted, and a sync that returns has extracted that list and persisted a
\* cleared currently_syncing.
C19_MarkerOnUnselectedStream ==
  (/\ ~args.discover
   /\ Len(TraceArgs("refresh")) > 0
   /\ loaded.currently_syncing \in StreamIdSet
   /\ loaded.currently_syncing \notin SelectedSet(catalog)) =>
     LET K == loaded.currently_syncing
         after == DeclaredOrderOf({id \in SelectedSet(catalog) : PosOf(id) > PosOf(K)})
     IN /\ err # "ValueError"
        /\ \A i \in DOMAIN trace : trace[i][2] # K
        /\ (InLoop \/ SyncReturned) => Ids(streams) = after
        /\ SyncReturned =>
             /\ TraceArgs("extracted") = after
             /\ persisted.currently_syncing = None

\* the state names contacts, the catalog selects the other two: only invoices
\* is extracted and the marker is cleared
C19_Witness ==
  /\ loaded.currently_syncing = "contacts"
  /\ SelectedSet(catalog) = {"bank_transactions", "invoices"}
  /\ SyncReturned
  /\ TraceArgs("extracted") = <<"invoices">>
  /\ persisted.currently_syncing = None

\* ---- C20 ----------------------------------------------------------------------
\* one invocation in which no extraction raises and the process is not killed
NextUndisturbed ==
  \/ MainNoSecretRead
  \/ MainReadRefreshToken
  \/ MainReadOauthCredentials
  \/ MainDispatch
  \/ DiscoverCheck
  \/ DiscoverBuild
  \/ SyncRefresh
  \/ SyncResume
  \/ SyncCheckpoint
  \/ SyncWriteSchema
  \/ SyncExtract
  \/ ExtractBookmark
  \/ ExtractReturn
  \/ SyncClear
  \/ MainNoWriteBack
  \/ MainAddSecretVersion
  \/ MainDestroyOldVersion

\* sync runs on: each of its statements is executed once it is reached, and
\* an extraction returns
SpecUndisturbed ==
  /\ Init
  /\ [][NextUndisturbed]_vars
  /\ WF_vars(SyncResume)
  /\ WF_vars(SyncCheckpoint)
  /\ WF_vars(SyncWriteSchema)
  /\ WF_vars(SyncExtract)
  /\ WF_vars(ExtractReturn)
  /\ WF_vars(SyncClear)

\* the extraction calls and returns of the run, in order
ExtractionEvents ==
  SelectSeq(trace, LAMBDA e : e[1] \in {"extract", "extracted"})

\* each call is followed by its own return before the next call
OneAtATime ==
  \A i \in DOMAIN ExtractionEvents :
    IF i % 2 = 1
    THEN ExtractionEvents[i][1] = "extract"
    ELSE /\ ExtractionEvents[i][1] = "extracted"
         /\ ExtractionEvents[i][2] = ExtractionEvents[i - 1][2]

ExactlyOnce ==
  /\ TraceArgs("extract") = Ids(streams)
  /\ TraceArgs("extracted") = Ids(streams)
  /\ \A i, j \in DOMAIN streams : i # j => streams[i].tap_stream_id # streams[j].tap_stream_id

\* C20: when the refresh has succeeded, currently_syncing is empty or a declared
\* stream and no extraction raises, sync returns; extractions never overlap, and
\* when sync has returned each stream of the working list has been extracted
\* exactly once and the persisted currently_syncing is cleared.
C20_SyncCompletes ==
  /\ [](OneAtATime /\ (SyncReturned => (ExactlyOnce /\ persisted.currently_syncing = None)))
  /\ (pc = "sync_resume" /\ ~InvalidResume) ~> SyncReturned

\* a sync resumed at contacts has returned after extracting two streams in turn
C20_Witness ==
  /\ SyncReturned
  /\ loaded.currently_syncing = "contacts"
  /\ Len(ExtractionEvents) = 4
  /\ TraceArgs("extracted") = <<"contacts", "invoices">>
  /\ persisted.currently_syncing = None

====
